---- MODULE Spec2Model ----
(***************************************************************************)
(* Model of the AWS Bedrock agents: the request/response adapter and the   *)
(* agent client of simple_agent.py, the capability router of               *)
(* declarative_agent.py, the HTTP endpoint of bedrock_api.py and the       *)
(* configuration of deploy/config.py.                                      *)
(*                                                                         *)
(* A Python str is a sequence of one-character strings, so that `in`,      *)
(* lower(), split() and strip() are computed character by character.       *)
(* A Python value that may be None, a str, a list or a dict is a record    *)
(* [t, v]: t is the type tag and v the content.                            *)
(***************************************************************************)
EXTENDS Integers, Sequences, FiniteSets, TLC

VARIABLES
    proc,           \* the process: "start", "serving" or "exited"
    creds,          \* the environment's credentials: "valid", "missing", "invalid"
    creds_ok,       \* what _test_aws_credentials returned (FALSE before it ran)
    model_id,       \* self.model_id of the SimpleBedrockAgent
    pc,             \* position inside SimpleBedrockAgent.invoke
    user_input,     \* invoke's user_input argument
    system_prompt,  \* invoke's system_prompt argument (None or a str)
    probe,          \* outcome of the list_foundation_models probe
    calls,          \* number of invoke_model calls issued by the current invoke
    request_body,   \* what _format_prompt_for_model returned
    response,       \* outcome of the remote invoke_model call
    extracted,      \* outcome of _extract_response_from_model
    result,         \* what invoke returned
    raw_input,      \* DeclarativeAgent.process's user_input (a str, or None)
    capability,     \* what _determine_capability returned
    handler,        \* the handler process dispatched to
    reply,          \* what process returned
    http            \* the HTTP requests being handled: one frame per handler thread

vars == <<proc, creds, creds_ok, model_id, pc, user_input, system_prompt, probe,
          calls, request_body, response, extracted, result, raw_input,
          capability, handler, reply, http>>

(***************************************************************************)
(* Python str operations.                                                  *)
(***************************************************************************)
UpperAlpha ==
    <<"A","B","C","D","E","F","G","H","I","J","K","L","M",
      "N","O","P","Q","R","S","T","U","V","W","X","Y","Z">>

LowerAlpha ==
    <<"a","b","c","d","e","f","g","h","i","j","k","l","m",
      "n","o","p","q","r","s","t","u","v","w","x","y","z">>

\* str.lower() of one character
LowerChar(c) ==
    IF \E i \in 1..Len(UpperAlpha) : UpperAlpha[i] = c
    THEN LowerAlpha[CHOOSE i \in 1..Len(UpperAlpha) : UpperAlpha[i] = c]
    ELSE c

\* s.lower()
Lower(s) == [i \in 1..Len(s) |-> LowerChar(s[i])]

\* sub in s
Contains(sub, s) ==
    \E i \in 0..(Len(s) - Len(sub)) : SubSeq(s, i + 1, i + Len(sub)) = sub

\* s.find(sub) + 1 when sub in s: the 1-based index of the first occurrence
FindFirst(sub, s) ==
    CHOOSE i \in 1..(Len(s) - Len(sub) + 1) :
        /\ SubSeq(s, i, i + Len(sub) - 1) = sub
        /\ \A j \in 1..(i - 1) : SubSeq(s, j, j + Len(sub) - 1) # sub

\* the characters str.strip() removes
IsSpace(c) == c \in {" ", "\n", "\t", "\r"}

RECURSIVE LStrip(_)
LStrip(s) == IF s # <<>> /\ IsSpace(Head(s)) THEN LStrip(Tail(s)) ELSE s

RECURSIVE RStrip(_)
RStrip(s) ==
    IF s # <<>> /\ IsSpace(s[Len(s)]) THEN RStrip(SubSeq(s, 1, Len(s) - 1)) ELSE s

\* s.strip()
Strip(s) == RStrip(LStrip(s))

\* s.split(sep, 1): the parts before and after the first occurrence of sep,
\* or the one-element list [s] when sep does not occur
Split1(s, sep) ==
    IF Contains(sep, s)
    THEN LET i == FindFirst(sep, s)
         IN  <<SubSeq(s, 1, i - 1), SubSeq(s, i + Len(sep), Len(s))>>
    ELSE <<s>>

\* the concatenation of a sequence of strs
RECURSIVE Flatten(_)
Flatten(ws) == IF ws = <<>> THEN <<>> ELSE Head(ws) \o Flatten(Tail(ws))

(***************************************************************************)
(* Python values.                                                          *)
(***************************************************************************)
PyNone == [t |-> "none", v |-> <<>>]
PyStr(s) == [t |-> "str", v |-> s]
PyList(items) == [t |-> "list", v |-> items]
\* a dict is the sequence of its items, in insertion order
PyDict(items) == [t |-> "dict", v |-> items]
Item(key, val) == [k |-> key, v |-> val]

\* bool(x) of None or a str
Truthy(x) == x.t = "str" /\ x.v # <<>>

HasKey(dct, key) == \E i \in 1..Len(dct.v) : dct.v[i].k = key

\* the outcome of an expression: a value, or the exception it raised
Returned(val) == [exc |-> "none", val |-> val]
Raised(name) == [exc |-> name, val |-> PyNone]

\* dct.get(key, default)
DictGet(dct, key, default) ==
    IF HasKey(dct, key)
    THEN dct.v[CHOOSE i \in 1..Len(dct.v) : dct.v[i].k = key].v
    ELSE default

\* x.get(key, default) of any value: only a dict has .get
Get(x, key, default) ==
    IF x.t = "dict" THEN Returned(DictGet(x, key, default))
    ELSE Raised("AttributeError")

\* x[0] of any value
Index0(x) ==
    CASE x.t = "list" -> IF x.v = <<>> THEN Raised("IndexError") ELSE Returned(x.v[1])
      [] x.t = "str"  -> IF x.v = <<>> THEN Raised("IndexError")
                         ELSE Returned(PyStr(<<x.v[1]>>))
      [] x.t = "dict" -> Raised("KeyError")
      [] OTHER        -> Raised("TypeError")

\* sep.join(parts)
RECURSIVE Join(_, _)
Join(sep, parts) ==
    IF parts = <<>> THEN <<>>
    ELSE IF Len(parts) = 1 THEN parts[1]
    ELSE parts[1] \o sep \o Join(sep, Tail(parts))

\* the escape of one character inside repr() of a str quoted with q
ReprChar(c, q) ==
    CASE c = "\\" -> <<"\\", "\\">>
      [] c = "\n" -> <<"\\", "n">>
      [] c = "\t" -> <<"\\", "t">>
      [] c = "\r" -> <<"\\", "r">>
      [] c = q    -> <<"\\", q>>
      [] OTHER    -> <<c>>

\* repr(s) of a str: single quotes, double quotes when s holds ' and no "
ReprStr(s) ==
    LET q == IF Contains(<<"'">>, s) /\ ~Contains(<<"\"">>, s) THEN "\"" ELSE "'"
    IN  <<q>> \o Flatten([i \in 1..Len(s) |-> ReprChar(s[i], q)]) \o <<q>>

\* repr(x)
RECURSIVE PyRepr(_)
PyRepr(x) ==
    CASE x.t = "str"  -> ReprStr(x.v)
      [] x.t = "none" -> <<"N","o","n","e">>
      [] x.t = "list" ->
           <<"[">> \o Join(<<",", " ">>, [i \in 1..Len(x.v) |-> PyRepr(x.v[i])]) \o <<"]">>
      [] x.t = "dict" ->
           <<"{">> \o Join(<<",", " ">>,
                          [i \in 1..Len(x.v) |->
                              ReprStr(x.v[i].k) \o <<":", " ">> \o PyRepr(x.v[i].v)])
                   \o <<"}">>

\* str(x)
Str(x) == IF x.t = "str" THEN x.v ELSE PyRepr(x)


(***************************************************************************)
(* deploy/config.py                                                        *)
(***************************************************************************)

\* the text 'amazon.titan-text-lite-v1'
MODEL_ID ==
    <<"a","m","a","z","o","n",".","t","i","t","a","n","-","t","e","x","t","-","l","i","t","e",
      "-","v","1">>

MAX_TOKENS == 1024

\* the floats 0.7 and 0.9 are only passed through
TEMPERATURE == "0.7"
TOP_P == "0.9"

\* the text 'You are a helpful AI assistant that answers user questions accurately and concisely.'
DEFAULT_SYSTEM_PROMPT ==
    <<"Y","o","u"," ","a","r","e"," ","a"," ","h","e","l","p","f","u","l"," ","A","I"," ","a",
      "s","s","i","s","t","a","n","t"," ","t","h","a","t"," ","a","n","s","w","e","r","s"," ",
      "u","s","e","r"," ","q","u","e","s","t","i","o","n","s"," ","a","c","c","u","r","a","t",
      "e","l","y"," ","a","n","d"," ","c","o","n","c","i","s","e","l","y",".">>


(***************************************************************************)
(* The string literals of simple_agent.py.                                 *)
(***************************************************************************)

\* the text 'anthropic.claude'
Lit_anthropic_claude ==
    <<"a","n","t","h","r","o","p","i","c",".","c","l","a","u","d","e">>

\* the text 'amazon.titan'
Lit_amazon_titan ==
    <<"a","m","a","z","o","n",".","t","i","t","a","n">>

\* the text 'meta.llama'
Lit_meta_llama ==
    <<"m","e","t","a",".","l","l","a","m","a">>

\* the text 'mistral'
Lit_mistral ==
    <<"m","i","s","t","r","a","l">>

\* the text 'Human: '
Lit_Human ==
    <<"H","u","m","a","n",":"," ">>

\* the text '\n\nAssistant:'
Lit_Assistant ==
    <<"\n","\n","A","s","s","i","s","t","a","n","t",":">>

\* the text '\n\n'
Lit_NlNl ==
    <<"\n","\n">>

\* the text '<system>\n'
Lit_system_open ==
    <<"<","s","y","s","t","e","m",">","\n">>

\* the text '\n</system>\n\n'
Lit_system_close ==
    <<"\n","<","/","s","y","s","t","e","m",">","\n","\n">>

\* the text '<user>\n'
Lit_user_open ==
    <<"<","u","s","e","r",">","\n">>

\* the text '\n</user>\n\n<assistant>'
Lit_user_close ==
    <<"\n","<","/","u","s","e","r",">","\n","\n","<","a","s","s","i","s","t","a","n","t",">">>

\* the text 'content'
Lit_content ==
    <<"c","o","n","t","e","n","t">>

\* the text 'text'
Lit_text ==
    <<"t","e","x","t">>

\* the text 'results'
Lit_results ==
    <<"r","e","s","u","l","t","s">>

\* the text 'outputText'
Lit_outputText ==
    <<"o","u","t","p","u","t","T","e","x","t">>

\* the text 'generation'
Lit_generation ==
    <<"g","e","n","e","r","a","t","i","o","n">>

\* the text 'Error ('
Lit_Error_open ==
    <<"E","r","r","o","r"," ","(">>

\* the text '): '
Lit_Error_close ==
    <<")",":"," ">>

\* the text 'Error: '
Lit_Error ==
    <<"E","r","r","o","r",":"," ">>

\* the text 'Unknown'
Lit_Unknown ==
    <<"U","n","k","n","o","w","n">>

\* the text 'Unknown error'
Lit_Unknown_error ==
    <<"U","n","k","n","o","w","n"," ","e","r","r","o","r">>

\* the text 'Code'
Lit_Code ==
    <<"C","o","d","e">>

\* the text 'Message'
Lit_Message ==
    <<"M","e","s","s","a","g","e">>

(***************************************************************************)
(* simple_agent.py: the request and response adapters.                     *)
(***************************************************************************)
\* the messages list of the Claude and Mistral branches
Messages(ui, sp) ==
    (IF Truthy(sp) THEN <<[role |-> "system", content |-> sp.v]>> ELSE <<>>)
        \o <<[role |-> "user", content |-> ui]>>

ClaudePayload(ui, sp) ==
    [anthropic_version |-> "bedrock-2023-05-31",
     max_tokens |-> MAX_TOKENS,
     temperature |-> TEMPERATURE,
     top_p |-> TOP_P,
     messages |-> Messages(ui, sp)]

TitanPrompt(ui, sp) ==
    IF Truthy(sp)
    THEN sp.v \o Lit_NlNl \o Lit_Human \o ui \o Lit_Assistant
    ELSE Lit_Human \o ui \o Lit_Assistant

TitanPayload(ui, sp) ==
    [inputText |-> TitanPrompt(ui, sp),
     textGenerationConfig |->
        [maxTokenCount |-> MAX_TOKENS,
         temperature |-> TEMPERATURE,
         topP |-> TOP_P,
         stopSequences |-> <<>>]]

LlamaPrompt(ui, sp) ==
    IF Truthy(sp)
    THEN Lit_system_open \o sp.v \o Lit_system_close \o Lit_user_open \o ui \o Lit_user_close
    ELSE Lit_user_open \o ui \o Lit_user_close

LlamaPayload(ui, sp) ==
    [prompt |-> LlamaPrompt(ui, sp),
     max_gen_len |-> MAX_TOKENS,
     temperature |-> TEMPERATURE,
     top_p |-> TOP_P]

MistralPayload(ui, sp) ==
    [messages |-> Messages(ui, sp),
     max_tokens |-> MAX_TOKENS,
     temperature |-> TEMPERATURE,
     top_p |-> TOP_P]

GenericPayload(ui, sp) ==
    [prompt |-> ui,
     max_tokens |-> MAX_TOKENS,
     temperature |-> TEMPERATURE,
     top_p |-> TOP_P]

\* the if/elif chain with the Titan test ahead of the Claude test
FormatTitanFirst(mid, ui, sp) ==
    IF Contains(Lit_amazon_titan, mid) THEN TitanPayload(ui, sp)
    ELSE IF Contains(Lit_anthropic_claude, mid) THEN ClaudePayload(ui, sp)
    ELSE IF Contains(Lit_meta_llama, mid) THEN LlamaPayload(ui, sp)
    ELSE IF Contains(Lit_mistral, mid) THEN MistralPayload(ui, sp)
    ELSE GenericPayload(ui, sp)

\* the chain with the system message appended after the user message
FormatSystemLast(mid, ui, sp) ==
    IF Contains(Lit_anthropic_claude, mid)
    THEN [ClaudePayload(ui, sp) EXCEPT !.messages =
             <<[role |-> "user", content |-> ui]>>
                 \o (IF Truthy(sp) THEN <<[role |-> "system", content |-> sp.v]>> ELSE <<>>)]
    ELSE IF Contains(Lit_amazon_titan, mid) THEN TitanPayload(ui, sp)
    ELSE IF Contains(Lit_meta_llama, mid) THEN LlamaPayload(ui, sp)
    ELSE IF Contains(Lit_mistral, mid) THEN MistralPayload(ui, sp)
    ELSE GenericPayload(ui, sp)

\* the chain with the Titan prompt always carrying the system block
FormatTitanAlwaysSystem(mid, ui, sp) ==
    IF Contains(Lit_anthropic_claude, mid) THEN ClaudePayload(ui, sp)
    ELSE IF Contains(Lit_amazon_titan, mid)
         THEN [TitanPayload(ui, sp) EXCEPT !.inputText =
                  Str(sp) \o Lit_NlNl \o Lit_Human \o ui \o Lit_Assistant]
    ELSE IF Contains(Lit_meta_llama, mid) THEN LlamaPayload(ui, sp)
    ELSE IF Contains(Lit_mistral, mid) THEN MistralPayload(ui, sp)
    ELSE GenericPayload(ui, sp)

\* SimpleBedrockAgent._format_prompt_for_model, self.model_id being mid
_format_prompt_for_model(mid, ui, sp) ==
    IF Contains(Lit_anthropic_claude, mid) THEN ClaudePayload(ui, sp)
    ELSE IF Contains(Lit_amazon_titan, mid) THEN TitanPayload(ui, sp)
    ELSE IF Contains(Lit_meta_llama, mid) THEN LlamaPayload(ui, sp)
    ELSE IF Contains(Lit_mistral, mid) THEN MistralPayload(ui, sp)
    ELSE GenericPayload(ui, sp)

\* body.get(outer, [{}])[0].get(inner, "")
FirstElementField(body, outer, inner) ==
    LET a == Get(body, outer, PyList(<<PyDict(<<>>)>>))
    IN  IF a.exc # "none" THEN a
        ELSE LET b == Index0(a.val)
             IN  IF b.exc # "none" THEN b ELSE Get(b.val, inner, PyStr(<<>>))

\* the extraction with the Llama rule reading the "text" field
ExtractLlamaWrongField(mid, body) ==
    IF Contains(Lit_anthropic_claude, mid)
    THEN FirstElementField(body, Lit_content, Lit_text)
    ELSE IF Contains(Lit_amazon_titan, mid)
    THEN FirstElementField(body, Lit_results, Lit_outputText)
    ELSE IF Contains(Lit_meta_llama, mid)
    THEN Get(body, Lit_text, PyStr(<<>>))
    ELSE Returned(PyStr(Str(body)))

\* SimpleBedrockAgent._extract_response_from_model, self.model_id being mid
_extract_response_from_model(mid, body) ==
    IF Contains(Lit_anthropic_claude, mid)
    THEN FirstElementField(body, Lit_content, Lit_text)
    ELSE IF Contains(Lit_amazon_titan, mid)
    THEN FirstElementField(body, Lit_results, Lit_outputText)
    ELSE IF Contains(Lit_meta_llama, mid)
    THEN Get(body, Lit_generation, PyStr(<<>>))
    ELSE Returned(PyStr(Str(body)))

(***************************************************************************)
(* The inputs of the adapters: model ids are concatenations of at most     *)
(* MaxIdParts parts, so that an id may pass several substring tests.       *)
(***************************************************************************)
MaxIdParts == 2

\* the text 'claude'
Part_claude ==
    <<"c","l","a","u","d","e">>

\* the text 'titan'
Part_titan ==
    <<"t","i","t","a","n">>

\* the text '-v1'
Part_v1 ==
    <<"-","v","1">>

\* the text 'hi'
Text_hi ==
    <<"h","i">>

\* the text 'Be brief.'
Text_brief ==
    <<"B","e"," ","b","r","i","e","f",".">>

\* the text 'outputs'
Key_outputs ==
    <<"o","u","t","p","u","t","s">>

\* the text 'completion'
Key_completion ==
    <<"c","o","m","p","l","e","t","i","o","n">>


IdParts ==
    {Lit_anthropic_claude, Lit_amazon_titan, Lit_meta_llama, Lit_mistral,
     Part_claude, Part_titan, Part_v1}

ModelIds == {Flatten(ws) : ws \in UNION {[1..n -> IdParts] : n \in 0..MaxIdParts}}

Texts == {<<>>, Text_hi}

SystemPrompts == {PyNone, PyStr(<<>>), PyStr(Text_brief)}

\* the response shapes of the model families, carrying the text x
ClaudeResponse(x) ==
    PyDict(<<Item(Lit_content, PyList(<<PyDict(<<Item(Lit_text, PyStr(x))>>)>>))>>)
TitanResponse(x) ==
    PyDict(<<Item(Lit_results, PyList(<<PyDict(<<Item(Lit_outputText, PyStr(x))>>)>>))>>)
LlamaResponse(x) == PyDict(<<Item(Lit_generation, PyStr(x))>>)
MistralResponse(x) ==
    PyDict(<<Item(Key_outputs, PyList(<<PyDict(<<Item(Lit_text, PyStr(x))>>)>>))>>)
GenericResponse(x) == PyDict(<<Item(Key_completion, PyStr(x))>>)

SampleResponses ==
    UNION {{ClaudeResponse(x), TitanResponse(x), LlamaResponse(x),
            MistralResponse(x), GenericResponse(x)} : x \in Texts}

\* JSON objects lacking the expected field, or holding an empty array or an
\* array whose first element lacks the text field
MissingField == PyDict(<<>>)
EmptyArray(key) == PyDict(<<Item(key, PyList(<<>>))>>)
FirstLacksText(key) == PyDict(<<Item(key, PyList(<<PyDict(<<>>)>>))>>)

DegenerateResponses ==
    {MissingField}
        \cup UNION {{EmptyArray(key), FirstLacksText(key)} :
                        key \in {Lit_content, Lit_results}}

ResponseBodies == SampleResponses \cup DegenerateResponses

(***************************************************************************)
(* State: the blank values, and the outcome of the remote call.            *)
(***************************************************************************)
NoPayload == [unset |-> TRUE]
NoOutcome == [exc |-> "unset", val |-> PyNone]
NoResponse == [kind |-> "none", payload |-> PyNone]
RemoteOk(body) == [kind |-> "ok", payload |-> body]

\* the handler threads of the HTTP server
NumThreads == 2
Requests == 1..NumThreads

\* a thread that handles no request: the locals of invoke_simple_agent and of
\* the invoke it calls are unset
FreeFrame ==
    [stage |-> "free", route |-> "none", data |-> PyNone, ui |-> <<>>, sp |-> PyNone,
     request_body |-> NoPayload, calls |-> 0, response |-> NoResponse, status |-> 0,
     body |-> PyNone]
NoRequests == [r \in Requests |-> FreeFrame]

Formatted == "unset" \notin DOMAIN request_body
Extracted == extracted.exc # "unset"

(***************************************************************************)
(* SpecAdapter: the two adapters applied to bounded inputs, the agent      *)
(* holding any model id.                                                   *)
(***************************************************************************)
InitAdapter ==
    /\ proc = "serving"
    /\ creds = "valid"
    /\ creds_ok = TRUE
    /\ model_id \in ModelIds
    /\ pc = "idle"
    /\ user_input = <<>>
    /\ system_prompt = PyNone
    /\ probe = "none"
    /\ calls = 0
    /\ request_body = NoPayload
    /\ response = NoResponse
    /\ extracted = NoOutcome
    /\ result = NoOutcome
    /\ raw_input = <<>>
    /\ capability = "none"
    /\ handler = "none"
    /\ reply = NoOutcome
    /\ http = NoRequests

\* a call of _format_prompt_for_model(ui, sp)
FormatPrompt(ui, sp) ==
    /\ user_input' = ui
    /\ system_prompt' = sp
    /\ request_body' = _format_prompt_for_model(model_id, ui, sp)
    /\ UNCHANGED <<http, proc, creds, creds_ok, model_id, pc, probe, calls, response,
                   extracted, result, raw_input, capability, handler, reply>>

\* a call of _extract_response_from_model(body)
ExtractResponse(body) ==
    /\ response' = RemoteOk(body)
    /\ extracted' = _extract_response_from_model(model_id, body)
    /\ UNCHANGED <<http, proc, creds, creds_ok, model_id, pc, user_input, system_prompt,
                   probe, calls, request_body, result, raw_input, capability,
                   handler, reply>>

NextAdapter ==
    \/ \E ui \in Texts, sp \in SystemPrompts : FormatPrompt(ui, sp)
    \/ \E body \in ResponseBodies : ExtractResponse(body)

SpecAdapter == InitAdapter /\ [][NextAdapter]_vars

(***************************************************************************)
(* simple_agent.py: construction of the agent and invoke.                  *)
(***************************************************************************)

\* the text 'AccessDeniedException'
Code_AccessDenied ==
    <<"A","c","c","e","s","s","D","e","n","i","e","d","E","x","c","e","p","t","i","o","n">>

\* the text 'ValidationException'
Code_Validation ==
    <<"V","a","l","i","d","a","t","i","o","n","E","x","c","e","p","t","i","o","n">>

\* the text 'ServiceQuotaExceededException'
Code_QuotaExceeded ==
    <<"S","e","r","v","i","c","e","Q","u","o","t","a","E","x","c","e","e","d","e","d","E","x",
      "c","e","p","t","i","o","n">>

\* the text 'ThrottlingException'
Code_Throttling ==
    <<"T","h","r","o","t","t","l","i","n","g","E","x","c","e","p","t","i","o","n">>

\* the text 'ModelNotReadyException'
Code_ModelNotReady ==
    <<"M","o","d","e","l","N","o","t","R","e","a","d","y","E","x","c","e","p","t","i","o","n">>

\* the text 'InternalServerException'
Code_InternalServer ==
    <<"I","n","t","e","r","n","a","l","S","e","r","v","e","r","E","x","c","e","p","t","i","o",
      "n">>

\* the text 'UnrecognizedClientException'
Code_UnrecognizedClient ==
    <<"U","n","r","e","c","o","g","n","i","z","e","d","C","l","i","e","n","t","E","x","c","e",
      "p","t","i","o","n">>

\* the text 'Error'
Key_Error ==
    <<"E","r","r","o","r">>

\* the text 'denied'
Msg_denied ==
    <<"d","e","n","i","e","d">>

\* the text 'Unable to locate credentials'
Msg_no_credentials ==
    <<"U","n","a","b","l","e"," ","t","o"," ","l","o","c","a","t","e"," ","c","r","e","d","e",
      "n","t","i","a","l","s">>

\* the text 'Read timed out'
Msg_timeout ==
    <<"R","e","a","d"," ","t","i","m","e","d"," ","o","u","t">>

\* the text 'Expecting value: line 1 column 1 (char 0)'
Msg_bad_json ==
    <<"E","x","p","e","c","t","i","n","g"," ","v","a","l","u","e",":"," ","l","i","n","e"," ",
      "1"," ","c","o","l","u","m","n"," ","1"," ","(","c","h","a","r"," ","0",")">>

\* the text 'list index out of range'
Msg_IndexError ==
    <<"l","i","s","t"," ","i","n","d","e","x"," ","o","u","t"," ","o","f"," ","r","a","n","g",
      "e">>

\* the text "'NoneType' object is not subscriptable"
Msg_TypeError ==
    <<"'","N","o","n","e","T","y","p","e","'"," ","o","b","j","e","c","t"," ","i","s"," ","n",
      "o","t"," ","s","u","b","s","c","r","i","p","t","a","b","l","e">>

\* the text "'str' object has no attribute 'get'"
Msg_AttributeError ==
    <<"'","s","t","r","'"," ","o","b","j","e","c","t"," ","h","a","s"," ","n","o"," ","a","t",
      "t","r","i","b","u","t","e"," ","'","g","e","t","'">>

\* the text '0'
Msg_KeyError ==
    <<"0">>

\* the text 'anthropic.claude-instant-v1'
Id_claude_instant ==
    <<"a","n","t","h","r","o","p","i","c",".","c","l","a","u","d","e","-","i","n","s","t","a",
      "n","t","-","v","1">>

\* the text 'meta.llama2-13b-chat-v1'
Id_llama2 ==
    <<"m","e","t","a",".","l","l","a","m","a","2","-","1","3","b","-","c","h","a","t","-","v",
      "1">>

\* the text 'mistral.mistral-7b-instruct-v0:2'
Id_mistral ==
    <<"m","i","s","t","r","a","l",".","m","i","s","t","r","a","l","-","7","b","-","i","n","s",
      "t","r","u","c","t","-","v","0",":","2">>


\* the model ids config.py names: the one it sets and its alternatives
ConfiguredModelIds == {MODEL_ID, Id_claude_instant, Id_llama2, Id_mistral}

\* SimpleBedrockAgent._test_aws_credentials: False when no credentials are
\* found or the identity check fails; it catches every exception
_test_aws_credentials(c) == c = "valid"

\* str(e) of an exception raised inside _extract_response_from_model
ExcMessage(name) ==
    CASE name = "IndexError" -> Msg_IndexError
      [] name = "TypeError" -> Msg_TypeError
      [] name = "AttributeError" -> Msg_AttributeError
      [] OTHER -> Msg_KeyError

\* the remote call raised ClientError, e.response being resp
RemoteClientError(resp) == [kind |-> "ClientError", payload |-> resp]
\* the remote call raised another exception, str(e) being msg
RemoteException(msg) == [kind |-> "Exception", payload |-> PyStr(msg)]
\* the remote call returned a body that json.loads rejects
RemoteBadJson == [kind |-> "BadJson", payload |-> PyStr(Msg_bad_json)]

\* e.response of a ClientError with an Error block
ErrorResponse(code, msg) ==
    PyDict(<<Item(Key_Error, PyDict(<<Item(Lit_Code, PyStr(code)),
                                      Item(Lit_Message, PyStr(msg))>>))>>)

ErrorCodes ==
    {Code_AccessDenied, Code_Validation, Code_QuotaExceeded, Code_Throttling,
     Code_ModelNotReady, Code_InternalServer}

ClientErrors ==
    {RemoteClientError(ErrorResponse(code, Msg_denied)) : code \in ErrorCodes}
        \cup {RemoteClientError(PyDict(<<>>)),
              RemoteClientError(PyDict(<<Item(Key_Error,
                  PyDict(<<Item(Lit_Code, PyStr(Code_Throttling))>>))>>))}

\* what invoke_model can do, given the credentials of the environment
RemoteOutcomes(c) ==
    CASE c = "valid" ->
             {RemoteOk(body) : body \in ResponseBodies} \cup ClientErrors
                 \cup {RemoteBadJson, RemoteException(Msg_timeout)}
      [] c = "missing" -> {RemoteException(Msg_no_credentials)}
      [] OTHER -> {RemoteClientError(ErrorResponse(Code_UnrecognizedClient, Msg_denied))}

\* what the list_foundation_models probe can do
ProbeOutcomes(c) ==
    IF c = "valid" THEN {"listed", "not_listed", "failed"} ELSE {"failed"}

\* the string the except ClientError branch of invoke returns
ClientErrorText(resp) ==
    LET error_code ==
            DictGet(DictGet(resp, Key_Error, PyDict(<<>>)), Lit_Code, PyStr(Lit_Unknown))
        error_message ==
            DictGet(DictGet(resp, Key_Error, PyDict(<<>>)), Lit_Message,
                    PyStr(Lit_Unknown_error))
    IN  Lit_Error_open \o Str(error_code) \o Lit_Error_close \o Str(error_message)

\* what _extract_response_from_model did inside invoke, if it was reached
InvokeExtracted(mid, outcome) ==
    IF outcome.kind = "ok"
    THEN _extract_response_from_model(mid, outcome.payload)
    ELSE NoOutcome

\* invoke letting the remote call's exception through
InvokeRaising(mid, outcome) ==
    CASE outcome.kind = "ok" ->
             LET e == _extract_response_from_model(mid, outcome.payload)
             IN  IF e.exc = "none" THEN Returned(e.val) ELSE Raised(e.exc)
      [] outcome.kind = "ClientError" -> Raised("ClientError")
      [] OTHER -> Raised("Exception")

\* what invoke returns once invoke_model has answered with outcome
InvokeResult(mid, outcome) ==
    CASE outcome.kind = "ok" ->
             LET e == _extract_response_from_model(mid, outcome.payload)
             IN  IF e.exc = "none" THEN Returned(e.val)
                 ELSE Returned(PyStr(Lit_Error \o ExcMessage(e.exc)))
      [] outcome.kind = "ClientError" ->
             Returned(PyStr(ClientErrorText(outcome.payload)))
      [] OTHER -> Returned(PyStr(Lit_Error \o outcome.payload.v))

Init ==
    /\ proc = "start"
    /\ creds \in {"valid", "missing", "invalid"}
    /\ creds_ok = FALSE
    /\ model_id = <<>>
    /\ pc = "idle"
    /\ user_input = <<>>
    /\ system_prompt = PyNone
    /\ probe = "none"
    /\ calls = 0
    /\ request_body = NoPayload
    /\ response = NoResponse
    /\ extracted = NoOutcome
    /\ result = NoOutcome
    /\ raw_input = <<>>
    /\ capability = "none"
    /\ handler = "none"
    /\ reply = NoOutcome
    /\ http = NoRequests

\* SimpleBedrockAgent.__init__ running to its end: the return value of
\* _test_aws_credentials is dropped and boto3.client builds the client
Construct ==
    /\ proc = "start"
    /\ creds_ok' = _test_aws_credentials(creds)
    /\ \E m \in ConfiguredModelIds : model_id' = m
    /\ proc' = "serving"
    /\ UNCHANGED <<http, creds, pc, user_input, system_prompt, probe, calls, request_body,
                   response, extracted, result, raw_input, capability, handler, reply>>

\* SimpleBedrockAgent.__init__ when boto3.client raises: sys.exit(1)
ConstructExit ==
    /\ proc = "start"
    /\ creds_ok' = _test_aws_credentials(creds)
    /\ proc' = "exited"
    /\ UNCHANGED <<http, creds, model_id, pc, user_input, system_prompt, probe, calls,
                   request_body, response, extracted, result, raw_input, capability,
                   handler, reply>>

\* a caller enters invoke(ui, sp)
InvokeBegin(ui, sp) ==
    /\ proc = "serving"
    /\ pc \in {"idle", "returned"}
    /\ pc' = "probe"
    /\ user_input' = ui
    /\ system_prompt' = sp
    /\ probe' = "none"
    /\ calls' = 0
    /\ request_body' = NoPayload
    /\ response' = NoResponse
    /\ extracted' = NoOutcome
    /\ result' = NoOutcome
    /\ UNCHANGED <<http, proc, creds, creds_ok, model_id, raw_input, capability, handler, reply>>

\* the probe with its failure ending invoke before invoke_model is called
ListModelsAborting(outcome) ==
    /\ pc = "probe"
    /\ probe' = outcome
    /\ IF outcome = "failed"
       THEN /\ pc' = "returned"
            /\ result' = Returned(PyStr(Lit_Error \o Msg_denied))
            /\ request_body' = request_body
       ELSE /\ pc' = "call"
            /\ result' = result
            /\ request_body' =
                   _format_prompt_for_model(model_id, user_input, system_prompt)
    /\ UNCHANGED <<http, proc, creds, creds_ok, model_id, user_input, system_prompt, calls,
                   response, extracted, raw_input, capability, handler, reply>>

\* the probe answers (or fails, which the inner except swallows) and the
\* request body is formatted
ListModels(outcome) ==
    /\ pc = "probe"
    /\ probe' = outcome
    /\ request_body' = _format_prompt_for_model(model_id, user_input, system_prompt)
    /\ pc' = "call"
    /\ UNCHANGED <<http, proc, creds, creds_ok, model_id, user_input, system_prompt, calls,
                   response, extracted, result, raw_input, capability, handler, reply>>

\* invoke_model retried while the service throttles
InvokeModelRetrying(outcome) ==
    /\ pc = "call"
    /\ calls' = calls + 1
    /\ response' = outcome
    /\ extracted' = InvokeExtracted(model_id, outcome)
    /\ IF /\ outcome.kind = "ClientError"
          /\ outcome.payload = ErrorResponse(Code_Throttling, Msg_denied)
       THEN pc' = "call" /\ result' = result
       ELSE pc' = "returned" /\ result' = InvokeResult(model_id, outcome)
    /\ UNCHANGED <<http, proc, creds, creds_ok, model_id, user_input, system_prompt, probe,
                   request_body, raw_input, capability, handler, reply>>

\* invoke_model is called and answers with outcome; invoke returns
InvokeModel(outcome) ==
    /\ pc = "call"
    /\ calls' = calls + 1
    /\ response' = outcome
    /\ extracted' = InvokeExtracted(model_id, outcome)
    /\ result' = InvokeResult(model_id, outcome)
    /\ pc' = "returned"
    /\ UNCHANGED <<http, proc, creds, creds_ok, model_id, user_input, system_prompt, probe,
                   request_body, raw_input, capability, handler, reply>>

Next ==
    \/ Construct
    \/ ConstructExit
    \/ \E ui \in Texts, sp \in SystemPrompts : InvokeBegin(ui, sp)
    \/ \E outcome \in ProbeOutcomes(creds) : ListModels(outcome)
    \/ \E outcome \in RemoteOutcomes(creds) : InvokeModel(outcome)

Spec == Init /\ [][Next]_vars

(***************************************************************************)
(* declarative_agent.py: the capability router.                            *)
(***************************************************************************)

\* the text 'summarize'
Kw_summarize ==
    <<"s","u","m","m","a","r","i","z","e">>

\* the text 'summary'
Kw_summary ==
    <<"s","u","m","m","a","r","y">>

\* the text 'summarization'
Kw_summarization ==
    <<"s","u","m","m","a","r","i","z","a","t","i","o","n">>

\* the text 'translate'
Kw_translate ==
    <<"t","r","a","n","s","l","a","t","e">>

\* the text 'translation'
Kw_translation ==
    <<"t","r","a","n","s","l","a","t","i","o","n">>

\* the text 'in spanish'
Kw_in_spanish ==
    <<"i","n"," ","s","p","a","n","i","s","h">>

\* the text 'in french'
Kw_in_french ==
    <<"i","n"," ","f","r","e","n","c","h">>

\* the text 'in german'
Kw_in_german ==
    <<"i","n"," ","g","e","r","m","a","n">>

\* the text 'code'
Kw_code ==
    <<"c","o","d","e">>

\* the text 'function'
Kw_function ==
    <<"f","u","n","c","t","i","o","n">>

\* the text 'script'
Kw_script ==
    <<"s","c","r","i","p","t">>

\* the text 'program'
Kw_program ==
    <<"p","r","o","g","r","a","m">>

\* the text 'programming'
Kw_programming ==
    <<"p","r","o","g","r","a","m","m","i","n","g">>

\* the text 'Spanish'
Lit_Spanish ==
    <<"S","p","a","n","i","s","h">>

\* the text 'French'
Lit_French ==
    <<"F","r","e","n","c","h">>

\* the text 'German'
Lit_German ==
    <<"G","e","r","m","a","n">>

\* the text "\nAnswer the user's question accurately and concisely."
Lit_answer_instruction ==
    <<"\n","A","n","s","w","e","r"," ","t","h","e"," ","u","s","e","r","'","s"," ","q","u","e",
      "s","t","i","o","n"," ","a","c","c","u","r","a","t","e","l","y"," ","a","n","d"," ","c",
      "o","n","c","i","s","e","l","y",".">>

\* the text '\nYou are tasked with summarizing text. Create a concise summary that captures the main points.'
Lit_summarize_instruction ==
    <<"\n","Y","o","u"," ","a","r","e"," ","t","a","s","k","e","d"," ","w","i","t","h"," ","s",
      "u","m","m","a","r","i","z","i","n","g"," ","t","e","x","t","."," ","C","r","e","a","t",
      "e"," ","a"," ","c","o","n","c","i","s","e"," ","s","u","m","m","a","r","y"," ","t","h",
      "a","t"," ","c","a","p","t","u","r","e","s"," ","t","h","e"," ","m","a","i","n"," ","p",
      "o","i","n","t","s",".">>

\* the text 'Please summarize the following text:\n\n'
Lit_summarize_prompt ==
    <<"P","l","e","a","s","e"," ","s","u","m","m","a","r","i","z","e"," ","t","h","e"," ","f",
      "o","l","l","o","w","i","n","g"," ","t","e","x","t",":","\n","\n">>

\* the text '\nYou are a skilled translator. Translate the text accurately while preserving meaning.'
Lit_translate_instruction ==
    <<"\n","Y","o","u"," ","a","r","e"," ","a"," ","s","k","i","l","l","e","d"," ","t","r","a",
      "n","s","l","a","t","o","r","."," ","T","r","a","n","s","l","a","t","e"," ","t","h","e",
      " ","t","e","x","t"," ","a","c","c","u","r","a","t","e","l","y"," ","w","h","i","l","e",
      " ","p","r","e","s","e","r","v","i","n","g"," ","m","e","a","n","i","n","g",".">>

\* the text 'Translate the following text to '
Lit_translate_prompt ==
    <<"T","r","a","n","s","l","a","t","e"," ","t","h","e"," ","f","o","l","l","o","w","i","n",
      "g"," ","t","e","x","t"," ","t","o"," ">>

\* the text ':\n\n'
Lit_colon_NlNl ==
    <<":","\n","\n">>

\* the text '\nYou are an expert programmer. Generate clean, efficient, and well-commented code based on the requirements.'
Lit_code_instruction ==
    <<"\n","Y","o","u"," ","a","r","e"," ","a","n"," ","e","x","p","e","r","t"," ","p","r","o",
      "g","r","a","m","m","e","r","."," ","G","e","n","e","r","a","t","e"," ","c","l","e","a",
      "n",","," ","e","f","f","i","c","i","e","n","t",","," ","a","n","d"," ","w","e","l","l",
      "-","c","o","m","m","e","n","t","e","d"," ","c","o","d","e"," ","b","a","s","e","d"," ",
      "o","n"," ","t","h","e"," ","r","e","q","u","i","r","e","m","e","n","t","s",".">>

\* the text 'Generate code for the following requirement:\n\n'
Lit_code_prompt ==
    <<"G","e","n","e","r","a","t","e"," ","c","o","d","e"," ","f","o","r"," ","t","h","e"," ",
      "f","o","l","l","o","w","i","n","g"," ","r","e","q","u","i","r","e","m","e","n","t",":",
      "\n","\n">>

\* the text '\n\nPlease include comments and explain any non-obvious parts.'
Lit_code_suffix ==
    <<"\n","\n","P","l","e","a","s","e"," ","i","n","c","l","u","d","e"," ","c","o","m","m","e",
      "n","t","s"," ","a","n","d"," ","e","x","p","l","a","i","n"," ","a","n","y"," ","n","o",
      "n","-","o","b","v","i","o","u","s"," ","p","a","r","t","s",".">>

\* the text "\nRespond helpfully to the user's input."
Lit_fallback_instruction ==
    <<"\n","R","e","s","p","o","n","d"," ","h","e","l","p","f","u","l","l","y"," ","t","o"," ",
      "t","h","e"," ","u","s","e","r","'","s"," ","i","n","p","u","t",".">>


SummarizePhrases == <<Kw_summarize, Kw_summary, Kw_summarization>>
TranslatePhrases == <<Kw_translate, Kw_translation, Kw_in_spanish, Kw_in_french>>
CodePhrases == <<Kw_code, Kw_function, Kw_script, Kw_program, Kw_programming>>

\* any(phrase in text for phrase in phrases)
AnyIn(phrases, text) == \E i \in 1..Len(phrases) : Contains(phrases[i], text)

\* the classification with the Translate test ahead of the Summarize test
DetermineTranslateFirst(ui) ==
    LET text == Lower(ui)
    IN  IF AnyIn(TranslatePhrases, text) THEN "translate_text"
        ELSE IF AnyIn(SummarizePhrases, text) THEN "summarize_text"
        ELSE IF AnyIn(CodePhrases, text) THEN "generate_code"
        ELSE "answer_question"

\* the classification with a default label the capability table lacks
DetermineUnknownDefault(ui) ==
    LET text == Lower(ui)
    IN  IF AnyIn(SummarizePhrases, text) THEN "summarize_text"
        ELSE IF AnyIn(TranslatePhrases, text) THEN "translate_text"
        ELSE IF AnyIn(CodePhrases, text) THEN "generate_code"
        ELSE "general_question"

\* DeclarativeAgent._determine_capability
_determine_capability(ui) ==
    LET text == Lower(ui)
    IN  IF AnyIn(SummarizePhrases, text) THEN "summarize_text"
        ELSE IF AnyIn(TranslatePhrases, text) THEN "translate_text"
        ELSE IF AnyIn(CodePhrases, text) THEN "generate_code"
        ELSE "answer_question"

\* self.capabilities: the handler of each capability name
capabilities ==
    [name \in {"answer_question", "summarize_text", "translate_text",
               "generate_code", "fallback"} |->
        CASE name = "answer_question" -> "_handle_general_question"
          [] name = "summarize_text" -> "_handle_summarization"
          [] name = "translate_text" -> "_handle_translation"
          [] name = "generate_code" -> "_handle_code_generation"
          [] OTHER -> "_handle_fallback"]

\* self.capabilities.get(name, self.capabilities["fallback"])
HandlerFor(name) ==
    IF name \in DOMAIN capabilities THEN capabilities[name] ELSE capabilities["fallback"]

\* the arguments a handler passes to bedrock_agent.invoke
InvokeArgs(prompt, sp) == [prompt |-> prompt, system_prompt |-> PyStr(sp)]

_handle_general_question(ui) ==
    InvokeArgs(ui, DEFAULT_SYSTEM_PROMPT \o Lit_answer_instruction)

_handle_summarization(ui) ==
    LET text_to_summarize ==
            IF Contains(Kw_summarize, Lower(ui))
            THEN LET parts == Split1(Lower(ui), Kw_summarize)
                 IN  IF Len(parts) > 1 THEN Strip(parts[2]) ELSE ui
            ELSE ui
    IN  InvokeArgs(Lit_summarize_prompt \o text_to_summarize,
                   DEFAULT_SYSTEM_PROMPT \o Lit_summarize_instruction)

\* the target language with the French test ahead of the Spanish test
TargetFrenchFirst(ui) ==
    IF Contains(Kw_in_french, Lower(ui)) THEN Lit_French
    ELSE IF Contains(Kw_in_spanish, Lower(ui)) THEN Lit_Spanish
    ELSE IF Contains(Kw_in_german, Lower(ui)) THEN Lit_German
    ELSE Lit_Spanish

\* the target language with the German test ahead of the French test
TargetGermanFirst(ui) ==
    IF Contains(Kw_in_spanish, Lower(ui)) THEN Lit_Spanish
    ELSE IF Contains(Kw_in_german, Lower(ui)) THEN Lit_German
    ELSE IF Contains(Kw_in_french, Lower(ui)) THEN Lit_French
    ELSE Lit_Spanish

\* target_language of _handle_translation
TargetLanguage(ui) ==
    IF Contains(Kw_in_spanish, Lower(ui)) THEN Lit_Spanish
    ELSE IF Contains(Kw_in_french, Lower(ui)) THEN Lit_French
    ELSE IF Contains(Kw_in_german, Lower(ui)) THEN Lit_German
    ELSE Lit_Spanish

_handle_translation(ui) ==
    InvokeArgs(Lit_translate_prompt \o TargetLanguage(ui) \o Lit_colon_NlNl \o ui,
               DEFAULT_SYSTEM_PROMPT \o Lit_translate_instruction)

_handle_code_generation(ui) ==
    InvokeArgs(Lit_code_prompt \o ui \o Lit_code_suffix,
               DEFAULT_SYSTEM_PROMPT \o Lit_code_instruction)

_handle_fallback(ui) ==
    InvokeArgs(ui, DEFAULT_SYSTEM_PROMPT \o Lit_fallback_instruction)

\* handler(user_input) up to its call of invoke
HandlerArgs(h, ui) ==
    CASE h = "_handle_general_question" -> _handle_general_question(ui)
      [] h = "_handle_summarization" -> _handle_summarization(ui)
      [] h = "_handle_translation" -> _handle_translation(ui)
      [] h = "_handle_code_generation" -> _handle_code_generation(ui)
      [] OTHER -> _handle_fallback(ui)

\* the text 'I encountered an error while processing your request: '
Lit_process_error ==
    <<"I"," ","e","n","c","o","u","n","t","e","r","e","d"," ","a","n"," ","e","r","r","o","r",
      " ","w","h","i","l","e"," ","p","r","o","c","e","s","s","i","n","g"," ","y","o","u","r",
      " ","r","e","q","u","e","s","t",":"," ">>

\* str(e) of the AttributeError user_input.lower() raises when user_input is None
Msg_NoneType_lower ==
    <<"'","N","o","n","e","T","y","p","e","'"," ","o","b","j","e","c","t"," ","h","a","s"," ",
      "n","o"," ","a","t","t","r","i","b","u","t","e"," ","'","l","o","w","e","r","'">>

\* process without its try/except: the exception leaves process
ProcessPropagate(msg) == Raised("Exception")

\* the except branch of process, str(e) being msg
ProcessCatch(msg) == Returned(PyStr(Lit_process_error \o msg))

\* what process returns when its handler returned or raised outcome
ProcessReturn(outcome) ==
    IF outcome.exc = "none" THEN outcome ELSE ProcessCatch(ExcMessage(outcome.exc))

(***************************************************************************)
(* The inputs of the router: at most MaxWords words joined by spaces,      *)
(* and the four inputs the specification classifies.                       *)
(***************************************************************************)
MaxWords == 2

\* the text 'summarize'
Word_1 ==
    <<"s","u","m","m","a","r","i","z","e">>

\* the text 'Summary'
Word_2 ==
    <<"S","u","m","m","a","r","y">>

\* the text 'summarization'
Word_3 ==
    <<"s","u","m","m","a","r","i","z","a","t","i","o","n">>

\* the text 'Translate'
Word_4 ==
    <<"T","r","a","n","s","l","a","t","e">>

\* the text 'translation'
Word_5 ==
    <<"t","r","a","n","s","l","a","t","i","o","n">>

\* the text 'in spanish'
Word_6 ==
    <<"i","n"," ","s","p","a","n","i","s","h">>

\* the text 'In French'
Word_7 ==
    <<"I","n"," ","F","r","e","n","c","h">>

\* the text 'in german'
Word_8 ==
    <<"i","n"," ","g","e","r","m","a","n">>

\* the text 'CODE'
Word_9 ==
    <<"C","O","D","E">>

\* the text 'function'
Word_10 ==
    <<"f","u","n","c","t","i","o","n">>

\* the text 'script'
Word_11 ==
    <<"s","c","r","i","p","t">>

\* the text 'program'
Word_12 ==
    <<"p","r","o","g","r","a","m">>

\* the text 'programming'
Word_13 ==
    <<"p","r","o","g","r","a","m","m","i","n","g">>

\* the text 'hello'
Word_14 ==
    <<"h","e","l","l","o">>

\* the text 'Please summarize this article'
Example_summarize ==
    <<"P","l","e","a","s","e"," ","s","u","m","m","a","r","i","z","e"," ","t","h","i","s"," ",
      "a","r","t","i","c","l","e">>

\* the text 'translate hello in french'
Example_translate ==
    <<"t","r","a","n","s","l","a","t","e"," ","h","e","l","l","o"," ","i","n"," ","f","r","e",
      "n","c","h">>

\* the text 'write a function to sort a list'
Example_code ==
    <<"w","r","i","t","e"," ","a"," ","f","u","n","c","t","i","o","n"," ","t","o"," ","s","o",
      "r","t"," ","a"," ","l","i","s","t">>

\* the text 'what is the capital of France'
Example_question ==
    <<"w","h","a","t"," ","i","s"," ","t","h","e"," ","c","a","p","i","t","a","l"," ","o","f",
      " ","F","r","a","n","c","e">>

Words ==
    {Word_1, Word_2, Word_3, Word_4, Word_5, Word_6, Word_7, Word_8,
     Word_9, Word_10, Word_11, Word_12, Word_13, Word_14}


RouterInputs ==
    {Join(<<" ">>, ws) : ws \in UNION {[1..n -> Words] : n \in 0..MaxWords}}
        \cup {Example_summarize, Example_translate, Example_code, Example_question}

\* the remote outcomes the router is run against
RouterOutcomes ==
    {RemoteOk(TitanResponse(Text_hi)),
     RemoteOk(EmptyArray(Lit_results)),
     RemoteClientError(ErrorResponse(Code_Throttling, Msg_denied)),
     RemoteException(Msg_timeout)}

(***************************************************************************)
(* SpecRouter: the interactive loop of declarative_agent.main over an      *)
(* agent built with the configured model id.                               *)
(***************************************************************************)
InitRouter ==
    /\ proc = "serving"
    /\ creds = "valid"
    /\ creds_ok = TRUE
    /\ model_id = MODEL_ID
    /\ pc = "idle"
    /\ user_input = <<>>
    /\ system_prompt = PyNone
    /\ probe = "none"
    /\ calls = 0
    /\ request_body = NoPayload
    /\ response = NoResponse
    /\ extracted = NoOutcome
    /\ result = NoOutcome
    /\ raw_input = <<>>
    /\ capability = "none"
    /\ handler = "none"
    /\ reply = NoOutcome
    /\ http = NoRequests

\* DeclarativeAgent.process(ui): classification, dispatch, the handler and
\* the invoke it makes, the probe answering pr and invoke_model outcome
Process(ui, pr, outcome) ==
    /\ proc = "serving"
    /\ pc = "idle"
    /\ raw_input' = ui
    /\ capability' = _determine_capability(ui)
    /\ handler' = HandlerFor(capability')
    /\ user_input' = HandlerArgs(handler', ui).prompt
    /\ system_prompt' = HandlerArgs(handler', ui).system_prompt
    /\ probe' = pr
    /\ request_body' = _format_prompt_for_model(model_id, user_input', system_prompt')
    /\ calls' = 1
    /\ response' = outcome
    /\ extracted' = InvokeExtracted(model_id, outcome)
    /\ result' = InvokeResult(model_id, outcome)
    /\ reply' = ProcessReturn(result')
    /\ pc' = "processed"
    /\ UNCHANGED <<http, proc, creds, creds_ok, model_id>>

\* DeclarativeAgent.process(None): user_input.lower() raises AttributeError
\* inside the try, before any handler runs, and the except branch answers
ProcessNone ==
    /\ proc = "serving"
    /\ pc = "idle"
    /\ raw_input' = PyNone
    /\ reply' = ProcessCatch(Msg_NoneType_lower)
    /\ pc' = "caught"
    /\ UNCHANGED <<http, proc, creds, creds_ok, model_id, user_input, system_prompt, probe,
                   calls, request_body, response, extracted, result, capability, handler>>

\* main prints the response and waits for the next input: the locals of the
\* finished call are gone
PrintResponse ==
    /\ pc \in {"processed", "caught"}
    /\ pc' = "idle"
    /\ user_input' = <<>>
    /\ system_prompt' = PyNone
    /\ probe' = "none"
    /\ calls' = 0
    /\ request_body' = NoPayload
    /\ response' = NoResponse
    /\ extracted' = NoOutcome
    /\ result' = NoOutcome
    /\ raw_input' = <<>>
    /\ capability' = "none"
    /\ handler' = "none"
    /\ reply' = NoOutcome
    /\ UNCHANGED <<http, proc, creds, creds_ok, model_id>>

NextRouter ==
    \/ /\ pc = "idle"
       /\ \E ui \in RouterInputs, pr \in ProbeOutcomes(creds), outcome \in RouterOutcomes :
              Process(ui, pr, outcome)
    \/ ProcessNone
    \/ PrintResponse

SpecRouter == InitRouter /\ [][NextRouter]_vars

(***************************************************************************)
(* The HTTP endpoint of bedrock_api.py.  The module builds one             *)
(* SimpleBedrockAgent when it is imported; every request is handled by a   *)
(* thread of its own, whose locals are the frame http[r], and the threads  *)
(* interleave at the remote calls.                                         *)
(***************************************************************************)
\* 'input'
Key_input ==
    <<"i","n","p","u","t">>
\* 'system_prompt'
Key_system_prompt ==
    <<"s","y","s","t","e","m","_","p","r","o","m","p","t">>
\* 'response'
Key_response ==
    <<"r","e","s","p","o","n","s","e">>
\* 'model'
Key_model ==
    <<"m","o","d","e","l">>
\* 'error'
Key_error ==
    <<"e","r","r","o","r">>
\* 'status'
Key_status ==
    <<"s","t","a","t","u","s">>
\* 'message'
Key_message ==
    <<"m","e","s","s","a","g","e">>
\* 'healthy'
Lit_healthy ==
    <<"h","e","a","l","t","h","y">>
\* 'AWS Bedrock agent API is running'
Lit_api_running ==
    <<"A","W","S"," ","B","e","d","r","o","c","k"," ","a","g","e","n","t"," ","A","P","I"," ",
      "i","s"," ","r","u","n","n","i","n","g">>
\* "Missing required 'input' field"
Lit_missing_input ==
    <<"M","i","s","s","i","n","g"," ","r","e","q","u","i","r","e","d"," ","'","i","n","p","u",
      "t","'"," ","f","i","e","l","d">>
\* 'Error'
Word_Error ==
    <<"E","r","r","o","r">>

OtherVars ==
    <<proc, creds, creds_ok, model_id, pc, user_input, system_prompt, probe, calls,
      request_body, response, extracted, result, raw_input, capability, handler, reply>>

\* jsonify of health_check
HealthBody ==
    PyDict(<<Item(Key_status, PyStr(Lit_healthy)),
             Item(Key_message, PyStr(Lit_api_running))>>)

\* jsonify of the 400 answer
MissingInputBody == PyDict(<<Item(Key_error, PyStr(Lit_missing_input))>>)

\* not data or 'input' not in data
InputMissing(data) ==
    \/ data.t = "none"
    \/ data.t = "dict" /\ data.v = <<>>
    \/ ~HasKey(data, Key_input)

\* the answer of the try/except around simple_agent.invoke
ApiAnswer(mid, res) ==
    IF res.exc = "none"
    THEN [status |-> 200,
          body |-> PyDict(<<Item(Key_response, res.val), Item(Key_model, PyStr(mid))>>)]
    ELSE [status |-> 500,
          body |-> PyDict(<<Item(Key_error, PyStr(ExcMessage(res.exc)))>>)]

\* the JSON bodies a client posts
Body_input == PyDict(<<Item(Key_input, PyStr(Text_hi))>>)
Body_input_system ==
    PyDict(<<Item(Key_input, PyStr(Text_brief)),
             Item(Key_system_prompt, PyStr(Text_brief))>>)
Body_input_null_system ==
    PyDict(<<Item(Key_input, PyStr(Text_hi)), Item(Key_system_prompt, PyNone)>>)
Body_input_empty_system ==
    PyDict(<<Item(Key_input, PyStr(Text_hi)), Item(Key_system_prompt, PyStr(<<>>))>>)
Body_empty == PyDict(<<>>)
Body_system_only == PyDict(<<Item(Key_system_prompt, PyStr(Text_brief))>>)
PostBodies ==
    {Body_input, Body_input_system, Body_input_null_system, Body_input_empty_system,
     Body_empty, Body_system_only}

\* what invoke_model does to the requests of the endpoint: an answer, a
\* malformed answer, a service error, an unreadable body, a timeout
ApiRemoteOutcomes(c) ==
    IF c = "valid"
    THEN {RemoteOk(TitanResponse(Text_hi)), RemoteOk(EmptyArray(Lit_results)),
          RemoteClientError(ErrorResponse(Code_Throttling, Msg_denied)),
          RemoteBadJson, RemoteException(Msg_timeout)}
    ELSE RemoteOutcomes(c)

\* the answers of the endpoint, computed once for every configured model id
\* and every remote outcome
Answers ==
    [mid \in ConfiguredModelIds |->
        [outcome \in UNION {ApiRemoteOutcomes(c) : c \in {"valid", "missing", "invalid"}} |->
            ApiAnswer(mid, InvokeResult(mid, outcome))]]

\* the request bodies of invoke, computed once for every configured model id
\* and every posted body that has an input
Payloads ==
    [mid \in ConfiguredModelIds |->
        [data \in {d \in PostBodies : ~InputMissing(d)} |->
            _format_prompt_for_model(mid, DictGet(data, Key_input, PyNone).v,
                DictGet(data, Key_system_prompt, PyStr(DEFAULT_SYSTEM_PROMPT)))]]

\* health_check reporting the failure of a request in flight
HealthCheckDegraded(r) ==
    /\ proc = "serving"
    /\ http[r].stage = "free"
    /\ http' = [http EXCEPT ![r] =
           [FreeFrame EXCEPT !.stage = "responded", !.route = "health",
               !.status = IF \E q \in Requests : http[q].response.kind
                                 \notin {"none", "ok"}
                          THEN 503 ELSE 200,
               !.body = IF \E q \in Requests : http[q].response.kind
                               \notin {"none", "ok"}
                        THEN PyDict(<<Item(Key_status, PyStr(Key_error))>>)
                        ELSE HealthBody]]
    /\ UNCHANGED OtherVars

\* GET /health
health_check(r) ==
    /\ proc = "serving"
    /\ http[r].stage = "free"
    /\ http' = [http EXCEPT ![r] =
           [FreeFrame EXCEPT !.stage = "responded", !.route = "health",
                             !.status = 200, !.body = HealthBody]]
    /\ UNCHANGED OtherVars

\* invoke_simple_agent testing only whether a body was sent
ApiPostNoKeyCheck(r, data) ==
    /\ proc = "serving"
    /\ http[r].stage = "free"
    /\ http' = [http EXCEPT ![r] =
           IF data.t = "none" \/ data.v = <<>>
           THEN [FreeFrame EXCEPT !.stage = "responded", !.route = "post",
                     !.data = data, !.status = 400, !.body = MissingInputBody]
           ELSE [FreeFrame EXCEPT !.stage = "probe", !.route = "post", !.data = data,
                     !.ui = DictGet(data, Key_input, PyStr(<<>>)).v,
                     !.sp = DictGet(data, Key_system_prompt,
                                    PyStr(DEFAULT_SYSTEM_PROMPT))]]
    /\ UNCHANGED OtherVars

\* invoke_simple_agent reading the system prompt without a default
ApiPostNoDefault(r, data) ==
    /\ proc = "serving"
    /\ http[r].stage = "free"
    /\ http' = [http EXCEPT ![r] =
           IF InputMissing(data)
           THEN [FreeFrame EXCEPT !.stage = "responded", !.route = "post",
                     !.data = data, !.status = 400, !.body = MissingInputBody]
           ELSE [FreeFrame EXCEPT !.stage = "probe", !.route = "post", !.data = data,
                     !.ui = DictGet(data, Key_input, PyNone).v,
                     !.sp = DictGet(data, Key_system_prompt, PyNone)]]
    /\ UNCHANGED OtherVars

\* POST /api/simple-agent up to the call of simple_agent.invoke: the 400
\* answer, or the arguments of invoke
invoke_simple_agent(r, data) ==
    /\ proc = "serving"
    /\ http[r].stage = "free"
    /\ http' = [http EXCEPT ![r] =
           IF InputMissing(data)
           THEN [FreeFrame EXCEPT !.stage = "responded", !.route = "post",
                     !.data = data, !.status = 400, !.body = MissingInputBody]
           ELSE [FreeFrame EXCEPT !.stage = "probe", !.route = "post", !.data = data,
                     !.ui = DictGet(data, Key_input, PyNone).v,
                     !.sp = DictGet(data, Key_system_prompt,
                                    PyStr(DEFAULT_SYSTEM_PROMPT))]]
    /\ UNCHANGED OtherVars

\* the request body formatted from the arguments the latest request left on
\* the shared agent
ApiListModelsShared(r, outcome) ==
    /\ http[r].stage = "probe"
    /\ LET last == CHOOSE q \in Requests :
                       /\ http[q].stage = "probe"
                       /\ \A p \in Requests : http[p].stage = "probe" => p <= q
       IN  http' = [http EXCEPT ![r].stage = "call",
                                ![r].request_body =
                                    _format_prompt_for_model(model_id, http[last].ui,
                                                             http[last].sp)]
    /\ UNCHANGED OtherVars

\* invoke inside a request: the probe answers or fails and the request body
\* is formatted
ApiListModels(r, outcome) ==
    /\ http[r].stage = "probe"
    /\ http' = [http EXCEPT ![r].stage = "call",
                            ![r].request_body = Payloads[model_id][http[r].data]]
    /\ UNCHANGED OtherVars

\* a remote failure ending the process
ApiInvokeModelExiting(r, outcome) ==
    /\ http[r].stage = "call"
    /\ http' = [http EXCEPT ![r].stage = "responded",
                            ![r].calls = http[r].calls + 1,
                            ![r].response = outcome,
                            ![r].status = ApiAnswer(model_id,
                                              InvokeResult(model_id, outcome)).status,
                            ![r].body = ApiAnswer(model_id,
                                            InvokeResult(model_id, outcome)).body]
    /\ proc' = IF outcome.kind = "ok" THEN proc ELSE "exited"
    /\ UNCHANGED <<creds, creds_ok, model_id, pc, user_input, system_prompt, probe, calls,
                   request_body, response, extracted, result, raw_input, capability,
                   handler, reply>>

\* invoke inside a request: invoke_model answers with outcome, invoke
\* returns and the handler answers the client
ApiInvokeModel(r, outcome) ==
    /\ http[r].stage = "call"
    /\ http' = [http EXCEPT ![r].stage = "responded",
                            ![r].calls = http[r].calls + 1,
                            ![r].response = outcome,
                            ![r].status = Answers[model_id][outcome].status,
                            ![r].body = Answers[model_id][outcome].body]
    /\ UNCHANGED OtherVars

\* the client has read the answer; the thread takes the next request
ApiClose(r) ==
    /\ http[r].stage = "responded"
    /\ http' = [http EXCEPT ![r] = FreeFrame]
    /\ UNCHANGED OtherVars

NextApi ==
    \/ Construct
    \/ ConstructExit
    \/ \E r \in Requests : health_check(r)
    \/ \E r \in Requests : /\ http[r].stage = "free"
                           /\ \E data \in PostBodies : invoke_simple_agent(r, data)
    \/ \E r \in Requests : /\ http[r].stage = "probe"
                           /\ \E outcome \in ProbeOutcomes(creds) : ApiListModels(r, outcome)
    \/ \E r \in Requests : /\ http[r].stage = "call"
                           /\ \E outcome \in ApiRemoteOutcomes(creds) :
                                  ApiInvokeModel(r, outcome)
    \/ \E r \in Requests : ApiClose(r)

SpecApi == Init /\ [][NextApi]_vars

\* a handler thread runs to the end of its request: the remote calls answer
\* or time out
SpecApiFair ==
    /\ SpecApi
    /\ \A r \in Requests :
           /\ WF_vars(\E outcome \in ProbeOutcomes(creds) : ApiListModels(r, outcome))
           /\ WF_vars(\E outcome \in ApiRemoteOutcomes(creds) : ApiInvokeModel(r, outcome))

(***************************************************************************)
(* Claims about the adapters, checked under SpecAdapter.                   *)
(***************************************************************************)
\* the five payload shapes, told apart by their fields
IsClaudeShape(p) ==
    DOMAIN p = {"anthropic_version", "max_tokens", "temperature", "top_p", "messages"}
IsTitanShape(p) == DOMAIN p = {"inputText", "textGenerationConfig"}
IsLlamaShape(p) == DOMAIN p = {"prompt", "max_gen_len", "temperature", "top_p"}
IsMistralShape(p) == DOMAIN p = {"messages", "max_tokens", "temperature", "top_p"}
IsGenericShape(p) == DOMAIN p = {"prompt", "max_tokens", "temperature", "top_p"}

\* the profile the Request Adapter's ordered substring tests select for an id
ProfileOf(mid) ==
    CASE Contains(Lit_anthropic_claude, mid) -> "claude"
      [] ~Contains(Lit_anthropic_claude, mid) /\ Contains(Lit_amazon_titan, mid) -> "titan"
      [] /\ ~Contains(Lit_anthropic_claude, mid) /\ ~Contains(Lit_amazon_titan, mid)
         /\ Contains(Lit_meta_llama, mid) -> "llama"
      [] /\ ~Contains(Lit_anthropic_claude, mid) /\ ~Contains(Lit_amazon_titan, mid)
         /\ ~Contains(Lit_meta_llama, mid) /\ Contains(Lit_mistral, mid) -> "mistral"
      [] OTHER -> "generic"

\* C1: every formatted payload has exactly one of the five shapes, the shape
\* of the first profile, in the order Claude, Titan, Llama, Mistral, generic,
\* whose substring test the model id passes; the generic shape when it
\* passes none.
C1_FirstMatchWins ==
    Formatted =>
        /\ Cardinality({s \in {"claude", "titan", "llama", "mistral", "generic"} :
               \/ s = "claude" /\ IsClaudeShape(request_body)
               \/ s = "titan" /\ IsTitanShape(request_body)
               \/ s = "llama" /\ IsLlamaShape(request_body)
               \/ s = "mistral" /\ IsMistralShape(request_body)
               \/ s = "generic" /\ IsGenericShape(request_body)}) = 1
        /\ ProfileOf(model_id) = "claude" => IsClaudeShape(request_body)
        /\ ProfileOf(model_id) = "titan" => IsTitanShape(request_body)
        /\ ProfileOf(model_id) = "llama" => IsLlamaShape(request_body)
        /\ ProfileOf(model_id) = "mistral" => IsMistralShape(request_body)
        /\ ProfileOf(model_id) = "generic" => IsGenericShape(request_body)

\* C1 witness: an id passing both the Claude and the Titan test got the
\* Claude payload
C1_Witness ==
    /\ Formatted
    /\ Contains(Lit_anthropic_claude, model_id)
    /\ Contains(Lit_amazon_titan, model_id)
    /\ IsClaudeShape(request_body)

\* the payload has anthropic_version and its last message is the user's
ClaudeContract(p, ui) ==
    /\ "anthropic_version" \in DOMAIN p
    /\ "messages" \in DOMAIN p
    /\ Len(p.messages) >= 1
    /\ p.messages[Len(p.messages)] = [role |-> "user", content |-> ui]

\* C2 as stated: every id containing "claude" gets the Claude payload.
C2_Original ==
    (Formatted /\ Contains(Part_claude, model_id)) =>
        ClaudeContract(request_body, user_input)

\* C2 as amended: every id containing "anthropic.claude" gets a payload with
\* anthropic_version and a messages array whose last entry is the user's
\* input with role "user", whatever the system prompt.
C2_ClaudePayload ==
    (Formatted /\ Contains(Lit_anthropic_claude, model_id)) =>
        ClaudeContract(request_body, user_input)

\* C2 witness: a Claude id formatted with a system prompt present
C2_Witness ==
    /\ Formatted
    /\ Contains(Lit_anthropic_claude, model_id)
    /\ Truthy(system_prompt)
    /\ Len(request_body.messages) = 2

\* the Titan payload of the claim; None and "" both count as absent
TitanContract(p, ui, sp) ==
    /\ "inputText" \in DOMAIN p
    /\ "textGenerationConfig" \in DOMAIN p
    /\ p.inputText =
           IF sp.t = "str" /\ Len(sp.v) > 0
           THEN sp.v \o <<"\n", "\n">> \o <<"H","u","m","a","n",":"," ">> \o ui
                     \o <<"\n", "\n">> \o <<"A","s","s","i","s","t","a","n","t",":">>
           ELSE <<"H","u","m","a","n",":"," ">> \o ui
                     \o <<"\n", "\n">> \o <<"A","s","s","i","s","t","a","n","t",":">>
    /\ p.textGenerationConfig.stopSequences = <<>>

\* C3 as stated: every id containing "titan" gets the Titan payload.
C3_Original ==
    (Formatted /\ Contains(Part_titan, model_id)) =>
        TitanContract(request_body, user_input, system_prompt)

\* C3 as amended: every id containing "amazon.titan" and not
\* "anthropic.claude" gets inputText "Human: {user_input}\n\nAssistant:",
\* preceded by "{system_prompt}\n\n" when the system prompt is a non-empty
\* string, with stopSequences the empty list.
C3_TitanPayload ==
    (/\ Formatted
     /\ Contains(Lit_amazon_titan, model_id)
     /\ ~Contains(Lit_anthropic_claude, model_id)) =>
        TitanContract(request_body, user_input, system_prompt)

\* C3 witness: a Titan id formatted without a system prompt
C3_Witness ==
    /\ Formatted
    /\ Contains(Lit_amazon_titan, model_id)
    /\ ~Contains(Lit_anthropic_claude, model_id)
    /\ system_prompt = PyNone
    /\ user_input = Text_hi
    /\ request_body.inputText =
           <<"H","u","m","a","n",":"," ","h","i","\n","\n",
             "A","s","s","i","s","t","a","n","t",":">>

\* the response of profile p carrying the text x
ResponseOf(p, x) ==
    CASE p = "claude" -> ClaudeResponse(x)
      [] p = "titan" -> TitanResponse(x)
      [] p = "llama" -> LlamaResponse(x)
      [] p = "mistral" -> MistralResponse(x)
      [] OTHER -> GenericResponse(x)

\* decode was given the response of the id's own profile carrying x
DecodedOwnShape(x) ==
    /\ Extracted
    /\ response = RemoteOk(ResponseOf(ProfileOf(model_id), x))

\* C4 as stated: for each of the five profiles, decode returns exactly x.
C4_Original ==
    \A x \in Texts :
        DecodedOwnShape(x) => (extracted.exc = "none" /\ extracted.val = PyStr(x))

\* C4 as amended: for the Claude, Titan and Llama profiles decode returns
\* exactly x; for the Mistral and the generic profile it returns the Python
\* string form of the whole payload, which is never x.
C4_RoundTrip ==
    \A x \in Texts :
        DecodedOwnShape(x) =>
            /\ extracted.exc = "none"
            /\ extracted.val.t = "str"
            /\ ProfileOf(model_id) \in {"claude", "titan", "llama"} =>
                   extracted.val.v = x
            /\ ProfileOf(model_id) = "mistral" =>
                   extracted.val.v =
                       <<"{","'","o","u","t","p","u","t","s","'",":"," ","[","{",
                         "'","t","e","x","t","'",":"," ","'">> \o x \o <<"'","}","]","}">>
            /\ ProfileOf(model_id) = "generic" =>
                   extracted.val.v =
                       <<"{","'","c","o","m","p","l","e","t","i","o","n","'",":"," ","'">>
                           \o x \o <<"'","}">>

\* C4 witness: a Llama id decoded its own response shape carrying "hi"
C4_Witness ==
    /\ ProfileOf(model_id) = "llama"
    /\ DecodedOwnShape(Text_hi)
    /\ extracted.val = PyStr(Text_hi)

\* the expected array key of the id's family, for the families that have one
ArrayKey(mid) ==
    IF ProfileOf(mid) = "claude" THEN Lit_content ELSE Lit_results

\* C5 as stated: decode never raises, and a missing field, an empty array or
\* a first element without the text field give the empty string.
C5_DecodeNeverRaises ==
    Extracted =>
        /\ extracted.exc = "none"
        /\ (/\ ProfileOf(model_id) \in {"claude", "titan"}
            /\ response.payload \in {MissingField, EmptyArray(ArrayKey(model_id)),
                                     FirstLacksText(ArrayKey(model_id))}) =>
               extracted.val = PyStr(<<>>)
        /\ (ProfileOf(model_id) = "llama" /\ response.payload = MissingField) =>
               extracted.val = PyStr(<<>>)

(***************************************************************************)
(* Claims about the agent client, checked under Spec.                      *)
(***************************************************************************)
\* C6: one invoke issues invoke_model at most once; when the remote call
\* fails with any of the error kinds, invoke returns, without raising and
\* after exactly one call, the string "Error (<code>): <message>", with
\* "Unknown" and "Unknown error" when the remote error names neither.
C6_NoRetry ==
    /\ calls <= 1
    /\ pc = "returned" => (calls = 1 /\ result.exc = "none")
    /\ \A code \in ErrorCodes :
           (pc = "returned" /\ response = RemoteClientError(ErrorResponse(code, Msg_denied)))
               => result.val =
                      PyStr(<<"E","r","r","o","r"," ","(">> \o code \o <<")",":"," ">>
                                \o <<"d","e","n","i","e","d">>)
    /\ (pc = "returned" /\ response = RemoteClientError(PyDict(<<>>)))
           => result.val =
                  PyStr(<<"E","r","r","o","r"," ","(","U","n","k","n","o","w","n",")",":"," ",
                          "U","n","k","n","o","w","n"," ","e","r","r","o","r">>)

\* C6 witness: an invoke returned after a throttling error
C6_Witness ==
    /\ pc = "returned"
    /\ response = RemoteClientError(ErrorResponse(Code_Throttling, Msg_denied))
    /\ calls = 1
    /\ result.val.t = "str"

\* C7 as stated: without valid credentials construction fails and the
\* process terminates, so that no agent built without valid credentials
\* ever serves an invoke request.
C7_NoInvokeWithoutCredentials ==
    creds # "valid" => pc \notin {"probe", "call", "returned"}

(***************************************************************************)
(* Claims about the capability router, checked under SpecRouter.           *)
(***************************************************************************)
Processed == pc = "processed"

\* a keyword of the set occurs in the lowercased text
Hit(keywords, text) == \E kw \in keywords : Contains(kw, text)

SummarizeSet == {Kw_summarize, Kw_summary, Kw_summarization}
TranslateSet == {Kw_translate, Kw_translation, Kw_in_spanish, Kw_in_french}
GenerateCodeSet == {Kw_code, Kw_function, Kw_script, Kw_program, Kw_programming}

\* C8: the label is that of the first keyword set, in the order Summarize,
\* Translate, GenerateCode, with a substring hit in the lowercased input,
\* else AnswerQuestion; the four inputs of the specification get Summarize,
\* Translate, GenerateCode and AnswerQuestion.
C8_ClassifyOrder ==
    Processed =>
        LET text == Lower(raw_input)
        IN  /\ Hit(SummarizeSet, text) => capability = "summarize_text"
            /\ (~Hit(SummarizeSet, text) /\ Hit(TranslateSet, text))
                   => capability = "translate_text"
            /\ (/\ ~Hit(SummarizeSet, text)
                /\ ~Hit(TranslateSet, text)
                /\ Hit(GenerateCodeSet, text)) => capability = "generate_code"
            /\ (/\ ~Hit(SummarizeSet, text)
                /\ ~Hit(TranslateSet, text)
                /\ ~Hit(GenerateCodeSet, text)) => capability = "answer_question"
            /\ raw_input = Example_summarize => capability = "summarize_text"
            /\ raw_input = Example_translate => capability = "translate_text"
            /\ raw_input = Example_code => capability = "generate_code"
            /\ raw_input = Example_question => capability = "answer_question"

\* C8 witness: an input with an upper-case Summarize keyword and a Translate
\* keyword was classified Summarize
C8_Witness ==
    /\ Processed
    /\ raw_input = Word_2 \o <<" ">> \o Word_4
    /\ capability = "summarize_text"

\* C9: the label is one of the four labels, each a key of the capability
\* table, and process dispatches to that key's handler, never to the
\* Fallback handler.
C9_NeverFallback ==
    Processed =>
        /\ capability \in {"answer_question", "summarize_text", "translate_text",
                           "generate_code"}
        /\ capability \in DOMAIN capabilities
        /\ handler = capabilities[capability]
        /\ handler # "_handle_fallback"

\* C9 witness: an input without any keyword went to the general handler
C9_Witness ==
    /\ Processed
    /\ raw_input = Word_14
    /\ capability = "answer_question"
    /\ handler = "_handle_general_question"

\* the prompt of the Translate handler for a target language
TranslatePrompt(target, ui) ==
    <<"T","r","a","n","s","l","a","t","e"," ","t","h","e"," ","f","o","l","l","o","w","i","n","g",
      " ","t","e","x","t"," ","t","o"," ">> \o target \o <<":","\n","\n">> \o ui

InTranslate == Processed /\ handler = "_handle_translation"

\* C10 as stated: French whenever "in french" appears, German whenever
\* "in german" appears, also when "in spanish" appears too; else Spanish.
C10_Original ==
    InTranslate =>
        LET text == Lower(raw_input)
            french == Contains(Kw_in_french, text)
            german == Contains(Kw_in_german, text)
        IN  /\ (french /\ ~german) =>
                   user_input = TranslatePrompt(<<"F","r","e","n","c","h">>, raw_input)
            /\ (german /\ ~french) =>
                   user_input = TranslatePrompt(<<"G","e","r","m","a","n">>, raw_input)
            /\ (~french /\ ~german) =>
                   user_input = TranslatePrompt(<<"S","p","a","n","i","s","h">>, raw_input)

\* C10 as amended: the target is Spanish by default and whenever
\* "in spanish" appears in the lowercased input; it is French when
\* "in french" appears and "in spanish" does not, and German when
\* "in german" appears and neither "in spanish" nor "in french" does; the
\* prompt is "Translate the following text to <target>:\n\n" followed by
\* the unmodified input.
C10_TranslateTarget ==
    InTranslate =>
        LET text == Lower(raw_input)
            spanish == Contains(Kw_in_spanish, text)
            french == Contains(Kw_in_french, text)
            german == Contains(Kw_in_german, text)
        IN  /\ (french /\ ~spanish) =>
                   user_input = TranslatePrompt(<<"F","r","e","n","c","h">>, raw_input)
            /\ (german /\ ~spanish /\ ~french) =>
                   user_input = TranslatePrompt(<<"G","e","r","m","a","n">>, raw_input)
            /\ (spanish \/ (~french /\ ~german)) =>
                   user_input = TranslatePrompt(<<"S","p","a","n","i","s","h">>, raw_input)

\* C10 witness: "in spanish In French" was translated to Spanish
C10_Witness ==
    /\ InTranslate
    /\ raw_input = Word_6 \o <<" ">> \o Word_7
    /\ user_input = TranslatePrompt(Lit_Spanish, raw_input)

\* process has returned, through its try or through its except branch
ProcessDone == pc \in {"processed", "caught"}

\* C11: process never raises; an error thrown while classifying is answered
\* with "I encountered an error while processing your request: <message>",
\* and a remote failure inside the Agent Client comes back as the text
\* "Error (<code>): <message>" or "Error: <message>".
C11_ProcessNeverRaises ==
    ProcessDone =>
        /\ reply.exc = "none"
        /\ reply.val.t = "str"
        /\ pc = "caught" =>
               reply.val.v =
                   <<"I"," ","e","n","c","o","u","n","t","e","r","e","d"," ","a","n"," ",
                     "e","r","r","o","r"," ","w","h","i","l","e"," ","p","r","o","c","e","s","s",
                     "i","n","g"," ","y","o","u","r"," ","r","e","q","u","e","s","t",":"," ">>
                       \o Msg_NoneType_lower
        /\ (/\ pc = "processed"
            /\ response = RemoteClientError(ErrorResponse(Code_Throttling, Msg_denied))) =>
               reply.val.v =
                   <<"E","r","r","o","r"," ","(">> \o Code_Throttling \o <<")",":"," ">>
                       \o Msg_denied
        /\ (pc = "processed" /\ response = RemoteException(Msg_timeout)) =>
               reply.val.v = <<"E","r","r","o","r",":"," ">> \o Msg_timeout

\* C11 witness: process answered an input whose classification raised
C11_Witness ==
    /\ pc = "caught"
    /\ raw_input = PyNone
    /\ reply.val.t = "str"

\* the input holds both "in french" and "in german", in any letter case
FrenchAndGerman ==
    /\ InTranslate
    /\ Contains(Kw_in_french, Lower(raw_input))
    /\ Contains(Kw_in_german, Lower(raw_input))

\* C17 as stated: an input with both "in french" and "in german" is
\* translated to German.
C17_Original ==
    FrenchAndGerman =>
        user_input = TranslatePrompt(<<"G","e","r","m","a","n">>, raw_input)

\* C17 as amended: an input with both "in french" and "in german" (either
\* order, any letter case) is translated to French, or to Spanish when it
\* also holds "in spanish".
C17_FrenchBeforeGerman ==
    FrenchAndGerman =>
        user_input =
            TranslatePrompt(IF Contains(Kw_in_spanish, Lower(raw_input))
                            THEN <<"S","p","a","n","i","s","h">>
                            ELSE <<"F","r","e","n","c","h">>,
                            raw_input)

\* C17 witness: "in german In French" was translated to French
C17_Witness ==
    /\ FrenchAndGerman
    /\ raw_input = Word_8 \o <<" ">> \o Word_7
    /\ user_input = TranslatePrompt(Lit_French, raw_input)

\* the text after the first "summarize" (matched in the lowercased input),
\* trimmed, in the user's own characters; the whole input without it
TextAsTyped(ui) ==
    IF Contains(Kw_summarize, Lower(ui))
    THEN Strip(SubSeq(ui, FindFirst(Kw_summarize, Lower(ui)) + Len(Kw_summarize), Len(ui)))
    ELSE ui

\* C18 as stated: the Summarize handler sends "Please summarize the
\* following text:\n\n" followed by the text after the first "summarize",
\* trimmed and as the user typed it, or by the whole input when "summarize"
\* does not occur.
C18_SummarizeAsTyped ==
    (Processed /\ handler = "_handle_summarization") =>
        user_input =
            <<"P","l","e","a","s","e"," ","s","u","m","m","a","r","i","z","e"," ","t","h","e"," ",
              "f","o","l","l","o","w","i","n","g"," ","t","e","x","t",":","\n","\n">>
                \o TextAsTyped(raw_input)

\* C19: the probe is attempted before invoke_model is called; whatever the
\* probe did (failed, listed the model or not), invoke goes on to call
\* invoke_model exactly once, the request body is the formatted payload of
\* the arguments and the returned value is decided by the invoke_model
\* outcome alone.
C19_ProbeDiagnosticOnly ==
    /\ calls >= 1 => probe # "none"
    /\ probe # "none" => pc \in {"call", "returned"}
    /\ pc \in {"call", "returned"} =>
           request_body = _format_prompt_for_model(model_id, user_input, system_prompt)
    /\ pc = "returned" =>
           /\ calls = 1
           /\ response.kind # "none"
           /\ result = InvokeResult(model_id, response)

\* C19 witness: the probe failed and invoke returned the model's text
C19_Witness ==
    /\ probe = "failed"
    /\ pc = "returned"
    /\ calls = 1
    /\ response = RemoteOk(LlamaResponse(Text_hi))
    /\ model_id = Id_llama2
    /\ result = Returned(PyStr(Text_hi))

\* C20: whenever the Request Adapter built a family-specific payload for the
\* model id (Claude, Titan, Llama or Mistral), the Response Adapter's result
\* for a response of that same id is that family's extraction and not the
\* generic stringification of the whole payload (for any well-formed vendor
\* response).
C20_SameFamily ==
    (/\ Formatted
     /\ Extracted
     /\ ~IsGenericShape(request_body)
     /\ response.payload \in SampleResponses) =>
        extracted # Returned(PyStr(Str(response.payload)))

(***************************************************************************)
(* Claims about the HTTP endpoint, checked under SpecApi and SpecApiFair.  *)
(***************************************************************************)
StartsWith(pre, str) == Len(str) >= Len(pre) /\ SubSeq(str, 1, Len(pre)) = pre

\* the keys of a JSON object, in order
KeysOf(dct) == [i \in 1..Len(dct.v) |-> dct.v[i].k]

\* request r was a POST /api/simple-agent and has been answered
PostAnswered(r) == http[r].route = "post" /\ http[r].stage = "responded"

\* C12: a POST /api/simple-agent whose JSON body has no "input" key (the
\* empty object included) is answered with status 400 and the body
\* {"error": "Missing required 'input' field"}, and the request makes no
\* call to the agent: nothing is formatted and nothing is invoked remotely.
C12_MissingInput400 ==
    \A r \in Requests :
        /\ (PostAnswered(r) /\ ~HasKey(http[r].data, Key_input)) =>
               /\ http[r].status = 400
               /\ http[r].body = PyDict(<<Item(Key_error, PyStr(Lit_missing_input))>>)
               /\ http[r].calls = 0
               /\ http[r].request_body = NoPayload
               /\ http[r].response = NoResponse
        /\ http[r].stage \in {"probe", "call"} => HasKey(http[r].data, Key_input)

\* C12 witness: the empty object and a body with only a system prompt have
\* both been answered with 400
C12_Witness ==
    /\ PostAnswered(1) /\ http[1].data = Body_empty /\ http[1].status = 400
    /\ PostAnswered(2) /\ http[2].data = Body_system_only /\ http[2].status = 400

\* C13: a POST /api/simple-agent with an "input" is answered with status 200
\* and the keys response and model, model being the configured model id,
\* after exactly one remote call, whether the call succeeded or failed: the
\* response is the extracted text on success and a string beginning "Error"
\* on a remote failure; status 500 only answers an exception that left
\* invoke.
C13_RemoteFailureIs200 ==
    \A r \in Requests :
        /\ (PostAnswered(r) /\ HasKey(http[r].data, Key_input)) =>
               /\ http[r].status = 200
               /\ http[r].calls = 1
               /\ KeysOf(http[r].body) = <<Key_response, Key_model>>
               /\ DictGet(http[r].body, Key_model, PyNone) = PyStr(model_id)
               /\ http[r].response.kind # "ok" =>
                      StartsWith(Word_Error, DictGet(http[r].body, Key_response, PyNone).v)
               /\ (/\ http[r].response.kind = "ok"
                   /\ _extract_response_from_model(model_id,
                          http[r].response.payload).exc = "none") =>
                      DictGet(http[r].body, Key_response, PyNone) =
                          _extract_response_from_model(model_id,
                              http[r].response.payload).val
        /\ http[r].status = 500 => InvokeResult(model_id, http[r].response).exc # "none"

\* C13 witness: a throttled remote call answered with 200 and the error string
C13_Witness ==
    /\ PostAnswered(1)
    /\ http[1].response = RemoteClientError(ErrorResponse(Code_Throttling, Msg_denied))
    /\ http[1].status = 200
    /\ DictGet(http[1].body, Key_response, PyNone) =
           PyStr(Lit_Error_open \o Code_Throttling \o Lit_Error_close \o Msg_denied)
    /\ model_id = MODEL_ID

\* C14: once the server serves it keeps serving, whatever the requests did:
\* every answer has status 200, 400 or 500, a free thread always accepts
\* the next request, no request stays inside invoke forever (each thread is
\* again and again free or answered), and the process only exits at
\* startup, before any request.
C14_ServerStaysUp ==
    /\ [](\A r \in Requests : http[r].stage = "responded" =>
              http[r].status \in {200, 400, 500})
    /\ [](proc # "serving" => http = NoRequests)
    /\ [][proc = "serving" => proc' = "serving"]_vars
    /\ [](\A r \in Requests : (proc = "serving" /\ http[r].stage = "free") =>
              ENABLED (\E data \in PostBodies : invoke_simple_agent(r, data)))
    /\ \A r \in Requests : []<>(http[r].stage \notin {"probe", "call"})

\* C14 witness: a request met an unreadable remote body, another lacked its
\* input, and the server serves
C14_Witness ==
    /\ proc = "serving"
    /\ PostAnswered(1) /\ http[1].response = RemoteBadJson /\ http[1].status = 200
    /\ PostAnswered(2) /\ http[2].data = Body_empty /\ http[2].status = 400

\* C15: in every state of the serving process GET /health can be answered,
\* and its answer is status 200 with the status field "healthy", whatever
\* the other requests did; it makes no remote call.
C15_HealthAlwaysHealthy ==
    \A r \in Requests :
        /\ (proc = "serving" /\ http[r].stage = "free") => ENABLED health_check(r)
        /\ (http[r].route = "health" /\ http[r].stage = "responded") =>
               /\ http[r].status = 200
               /\ DictGet(http[r].body, Key_status, PyNone) = PyStr(Lit_healthy)
               /\ http[r].calls = 0
               /\ http[r].request_body = NoPayload
               /\ http[r].response = NoResponse

\* C15 witness: a health answer next to a request whose remote call timed out
C15_Witness ==
    /\ PostAnswered(1) /\ http[1].response = RemoteException(Msg_timeout)
    /\ http[2].route = "health" /\ http[2].stage = "responded" /\ http[2].status = 200

\* every in-flight or answered request carries what its own body and its own
\* remote outcome determine
OwnDataOnly ==
    \A r \in Requests :
        (http[r].route = "post" /\ HasKey(http[r].data, Key_input)) =>
            /\ http[r].ui = DictGet(http[r].data, Key_input, PyNone).v
            /\ http[r].sp = DictGet(http[r].data, Key_system_prompt,
                                    PyStr(DEFAULT_SYSTEM_PROMPT))
            /\ http[r].stage \in {"call", "responded"} =>
                   http[r].request_body =
                       _format_prompt_for_model(model_id,
                           DictGet(http[r].data, Key_input, PyNone).v,
                           DictGet(http[r].data, Key_system_prompt,
                                   PyStr(DEFAULT_SYSTEM_PROMPT)))
            /\ http[r].stage = "responded" =>
                   [status |-> http[r].status, body |-> http[r].body] =
                       ApiAnswer(model_id, InvokeResult(model_id, http[r].response))

\* a step of the serving process writes one thread's frame and nothing of
\* the shared agent
OneFrameWritten ==
    proc = "serving" =>
        /\ UNCHANGED OtherVars
        /\ \A r, q \in Requests :
               (http'[r] # http[r] /\ http'[q] # http[q]) => r = q

\* C16: under every interleaving of concurrent POST /api/simple-agent
\* requests, each request's payload and answer are determined by its own
\* input, its own system prompt and its own remote outcome; a step writes
\* only the frame of its own request, and the agent's model_id (with the
\* rest of the shared agent) never changes after startup.
C16_RequestsIndependent == []OwnDataOnly /\ [][OneFrameWritten]_vars

\* C16 witness: two requests with different inputs and different remote
\* outcomes were in flight together and both are answered
C16_Witness ==
    /\ PostAnswered(1) /\ http[1].data = Body_input
    /\ http[1].response = RemoteOk(TitanResponse(Text_hi))
    /\ PostAnswered(2) /\ http[2].data = Body_input_system
    /\ http[2].response = RemoteClientError(ErrorResponse(Code_Throttling, Msg_denied))

\* request r entered simple_agent.invoke
InvokedByPost(r) ==
    /\ http[r].route = "post"
    /\ http[r].stage \in {"probe", "call", "responded"}
    /\ HasKey(http[r].data, Key_input)

\* C21: a POST /api/simple-agent hands invoke the body's system_prompt when
\* the body has that key and the configured default when it has not, and
\* the body's input unchanged; so invoke runs without a system prompt (its
\* payload is the one formatted for no system prompt) only when the body
\* carries a system_prompt that is null or empty.
C21_SystemPromptDefault ==
    \A r \in Requests :
        InvokedByPost(r) =>
            /\ PyStr(http[r].ui) = http[r].data.v[
                   CHOOSE i \in 1..Len(http[r].data.v) : http[r].data.v[i].k = Key_input].v
            /\ HasKey(http[r].data, Key_system_prompt) =>
                   \E i \in 1..Len(http[r].data.v) :
                       /\ http[r].data.v[i].k = Key_system_prompt
                       /\ http[r].sp = http[r].data.v[i].v
            /\ ~HasKey(http[r].data, Key_system_prompt) =>
                   http[r].sp = PyStr(DEFAULT_SYSTEM_PROMPT)
            /\ (\/ ~Truthy(http[r].sp)
                \/ /\ http[r].stage \in {"call", "responded"}
                   /\ http[r].request_body =
                          _format_prompt_for_model(model_id, http[r].ui, PyNone)) =>
                   \E i \in 1..Len(http[r].data.v) :
                       /\ http[r].data.v[i].k = Key_system_prompt
                       /\ http[r].data.v[i].v \in {PyNone, PyStr(<<>>)}

\* C21 witness: one request without the key was invoked with the default,
\* another with a null system_prompt was invoked without a system prompt
C21_Witness ==
    /\ PostAnswered(1) /\ http[1].data = Body_input
    /\ http[1].sp = PyStr(DEFAULT_SYSTEM_PROMPT)
    /\ http[1].request_body # _format_prompt_for_model(model_id, Text_hi, PyNone)
    /\ PostAnswered(2) /\ http[2].data = Body_input_null_system
    /\ http[2].sp = PyNone
    /\ http[2].request_body = _format_prompt_for_model(model_id, Text_hi, PyNone)
====
